---- MODULE Spec2Model ----
(***************************************************************************)
(* Model of the teacup layout engine (teacup/src/layout.rs): a tree of     *)
(* Rectangle nodes owned by a UI, laid out by UI::compute_layout in four   *)
(* steps: fit_sizing, grow_root, grow_sizing, set_child_positions.         *)
(***************************************************************************)
EXTENDS Integers, Sequences, FiniteSets, TLC

VARIABLES
    root_item,  \* UI.root_item: the root Rectangle with its owned children
    size,       \* UI.size: the viewport (width, height)
    pc,         \* compute_layout: 0 not called, i the next of its calls, 5 returned
    panicked,   \* compute_layout was unwound by a panic
    trace,      \* the calls compute_layout has finished, each with the tree it left
    loop,       \* the while loop of the root's grow_sizing, when it is followed step by step
    fan,        \* the par_iter tasks of the root's grow_sizing, when they are followed one by one
    render      \* UI::draw: the frames of Rectangle::draw in progress and the rectangles emitted

vars == <<root_item, size, pc, panicked, trace, loop, fan, render>>

----------------------------------------------------------------------------
(* Bounds of the model *)

\* the largest number of Rectangles in a generated tree
MaxNodes == 4
\* the non-zero minimum a generated node may declare
MinV == 2
\* the maximum a generated node may declare
MaxV == 1
\* the value of a generated Fixed(v) sizing mode
FixedV == 3
\* the non-zero padding and child_gap a generated container may declare
PadV == 1
\* the generated viewport
ViewW == 7
ViewH == 5
\* the value a caller leaves in width, height and position before a layout
StaleV == 9

----------------------------------------------------------------------------
(* Value types *)

NoneI32 == [some |-> FALSE, v |-> 0]
SomeI32(n) == [some |-> TRUE, v |-> n]

Fixed(n) == [kind |-> "Fixed", v |-> n]
Fit == [kind |-> "Fit", v |-> 0]
Grow == [kind |-> "Grow", v |-> 0]

Horizontal == "Horizontal"
Vertical == "Vertical"

\* impl Not for Axis
Not(axis) == IF axis = Horizontal THEN Vertical ELSE Horizontal

\* the match on self.layout_mode at the head of fit_sizing and grow_sizing
main_axis(self) == IF self.layout_mode = "TopToBottom" THEN Vertical ELSE Horizontal

MaxOf(a, b) == IF a >= b THEN a ELSE b
MinOf(a, b) == IF a <= b THEN a ELSE b

\* the elements of a sequence
Range(s) == { s[i] : i \in 1..Len(s) }

\* Rectangle::default() with the fields a caller sets
Rectangle(p) ==
    [ width |-> 0, height |-> 0,
      min_width |-> p.min_width, min_height |-> p.min_height,
      max_width |-> p.max_width, max_height |-> p.max_height,
      position |-> <<0, 0>>,
      layout_mode |-> p.layout_mode,
      sizing |-> p.sizing,
      padding |-> p.padding,
      child_gap |-> p.child_gap,
      children |-> <<>> ]

get_size_along_axis(self, axis) ==
    IF axis = Horizontal THEN self.width ELSE self.height

set_size_along_axis(self, axis, s) ==
    IF axis = Horizontal THEN [self EXCEPT !.width = s] ELSE [self EXCEPT !.height = s]

get_min_along_axis(self, axis) ==
    IF axis = Horizontal THEN self.min_width ELSE self.min_height

get_max_along_axis(self, axis) ==
    IF axis = Horizontal THEN self.max_width ELSE self.max_height

get_sizing_along_axis(self, axis) ==
    IF axis = Horizontal THEN self.sizing.width ELSE self.sizing.height

----------------------------------------------------------------------------
(* Rectangle::fit_sizing *)

\* resolve_size that adopts the declared minimum for Fit and Grow
resolve_size_min_only(mode, accum, min, max) ==
    IF mode.kind = "Fixed" THEN mode.v ELSE min

\* one arm of the match on self.sizing.width / self.sizing.height
resolve_size(mode, accum, min, max) ==
    IF mode.kind = "Fixed" THEN mode.v
    ELSE LET s == MaxOf(accum, min)
         IN  IF max.some THEN MinOf(s, max.v) ELSE s

\* fit_accumulate with the gap added before every child, the first included
RECURSIVE fit_accumulate_gap_first(_, _, _, _, _)
fit_accumulate_gap_first(children, i, axis, child_gap, acc) ==
    IF i > Len(children) THEN acc
    ELSE LET prim == children[i]
         IN  fit_accumulate_gap_first(children, i + 1, axis, child_gap,
                 [ axis_size |-> acc.axis_size + get_size_along_axis(prim, axis) + child_gap,
                   off_axis_size |-> MaxOf(acc.off_axis_size, get_size_along_axis(prim, Not(axis))),
                   first |-> TRUE,
                   gap |-> child_gap ])

\* the for loop over self.children: acc is (axis_size, off_axis_size, first, gap)
RECURSIVE fit_accumulate(_, _, _, _, _)
fit_accumulate(children, i, axis, child_gap, acc) ==
    IF i > Len(children) THEN acc
    ELSE LET prim == children[i]
         IN  fit_accumulate(children, i + 1, axis, child_gap,
                 [ axis_size |-> acc.axis_size + get_size_along_axis(prim, axis) + acc.gap,
                   off_axis_size |-> MaxOf(acc.off_axis_size, get_size_along_axis(prim, Not(axis))),
                   first |-> TRUE,
                   gap |-> IF ~acc.first THEN child_gap ELSE acc.gap ])

\* every child is a Rectangle, whose as_container() is Some: the branch that
\* copies a child's minimum into its size is never taken
RECURSIVE fit_sizing(_)
fit_sizing(self) ==
    LET axis == main_axis(self)
        children == [i \in 1..Len(self.children) |-> fit_sizing(self.children[i])]
        acc == fit_accumulate(children, 1, axis, self.child_gap,
                   [ axis_size |-> 2 * self.padding, off_axis_size |-> 0,
                     first |-> FALSE, gap |-> 0 ])
        axis_size == acc.axis_size
        off_axis_size == acc.off_axis_size + 2 * self.padding
        w == IF axis = Vertical
             THEN resolve_size(self.sizing.width, off_axis_size, self.min_width, self.max_width)
             ELSE resolve_size(self.sizing.width, axis_size, self.min_width, self.max_width)
        h == IF axis = Vertical
             THEN resolve_size(self.sizing.height, axis_size, self.min_height, self.max_height)
             ELSE resolve_size(self.sizing.height, off_axis_size, self.min_height, self.max_height)
    IN  [self EXCEPT !.children = children, !.width = w, !.height = h]

----------------------------------------------------------------------------
(* UI::grow_root *)

\* grow_root with the viewport's width written to both axes
grow_root_width_twice(ui_size, root) ==
    LET r1 == IF root.sizing.width.kind = "Grow"
              THEN [root EXCEPT !.width = ui_size[1]] ELSE root
    IN  IF r1.sizing.height.kind = "Grow"
        THEN [r1 EXCEPT !.height = ui_size[1]] ELSE r1

grow_root(ui_size, root) ==
    LET r1 == IF root.sizing.width.kind = "Grow"
              THEN [root EXCEPT !.width = ui_size[1]] ELSE root
    IN  IF r1.sizing.height.kind = "Grow"
        THEN [r1 EXCEPT !.height = ui_size[2]] ELSE r1

----------------------------------------------------------------------------
(* Rectangle::grow_sizing *)

RECURSIVE SumSizes(_, _, _)
SumSizes(children, i, axis) ==
    IF i > Len(children) THEN 0
    ELSE get_size_along_axis(children[i], axis) + SumSizes(children, i + 1, axis)

\* the par_iter().map(size).sum() over self.children
used_space(children, axis) == SumSizes(children, 1, axis)

\* remaining_space as computed before the loop
remaining_before(self, axis) ==
    get_size_along_axis(self, axis)
        - (self.padding * 2)
        - (self.child_gap * (Len(self.children) - 1))
        - used_space(self.children, axis)

\* remaining_space as recomputed at the end of each iteration
remaining_after(self, children, axis) ==
    get_size_along_axis(self, axis)
        - (self.padding * 2)
        - (self.child_gap * MaxOf(Len(children) - 1, 0))
        - used_space(children, axis)

\* 1..n as a sequence
RECURSIVE Indices(_)
Indices(n) == IF n = 0 THEN <<>> ELSE Append(Indices(n - 1), n)

\* grow_filter that takes every child whose sizing is not Fit
grow_filter_not_fit(children, axis) ==
    SelectSeq(Indices(Len(children)),
              LAMBDA c : get_sizing_along_axis(children[c], axis).kind # "Fit")

\* the par_iter().filter(sizing along axis is Grow).cloned().collect():
\* the children are named by their index in self.children, in child order
grow_filter(children, axis) ==
    SelectSeq(Indices(Len(children)),
              LAMBDA c : get_sizing_along_axis(children[c], axis).kind = "Grow")

RECURSIVE MinSize(_, _, _, _)
MinSize(children, list, i, axis) ==
    IF i = Len(list) THEN get_size_along_axis(children[list[i]], axis)
    ELSE MinOf(get_size_along_axis(children[list[i]], axis),
               MinSize(children, list, i + 1, axis))

\* grow_list.par_iter().map(size).min().unwrap_or(0)
smallest_size_of(children, grow_list, axis) ==
    IF grow_list = <<>> THEN 0 ELSE MinSize(children, grow_list, 1, axis)

\* min_growing_list_of that takes the children smaller than smallest_size
min_growing_list_of_smaller(children, grow_list, axis, smallest_size) ==
    SelectSeq(grow_list,
              LAMBDA c : get_size_along_axis(children[c], axis) < smallest_size)

\* the children of grow_list whose size is <= smallest_size
min_growing_list_of(children, grow_list, axis, smallest_size) ==
    SelectSeq(grow_list,
              LAMBDA c : get_size_along_axis(children[c], axis) <= smallest_size)

\* the smallest size among the children of grow_list larger than smallest_size
second_smallest_size_of(children, grow_list, axis, smallest_size) ==
    LET filter == SelectSeq(grow_list,
                      LAMBDA c : get_size_along_axis(children[c], axis) > smallest_size)
    IN  IF filter = <<>> THEN NoneI32
        ELSE SomeI32(MinSize(children, filter, 1, axis))

\* grow_step_of with the share of the remaining space rounded up
grow_step_of_rounded_up(second_smallest_size, smallest_size, remaining_space, tied) ==
    IF second_smallest_size.some
    THEN MinOf(second_smallest_size.v - smallest_size,
               (remaining_space + tied - 1) \div tied)
    ELSE (remaining_space + tied - 1) \div tied

\* grow_step_of that hands each tied child the whole remaining space
grow_step_of_undivided(second_smallest_size, smallest_size, remaining_space, tied) ==
    IF second_smallest_size.some
    THEN MinOf(second_smallest_size.v - smallest_size, remaining_space)
    ELSE remaining_space

grow_step_of(second_smallest_size, smallest_size, remaining_space, tied) ==
    IF second_smallest_size.some
    THEN MinOf(second_smallest_size.v - smallest_size, remaining_space \div tied)
    ELSE remaining_space \div tied

\* Vec::remove(i) with i counted from 0: the element at position i + 1 goes
vec_remove(list, i) == SubSeq(list, 1, i) \o SubSeq(list, i + 2, Len(list))

\* Vec::remove(i) panics when i >= len
vec_remove_panics(list, i) == i >= Len(list)

\* for (i, prim) in min_growing_list.iter().enumerate(): k = i + 1
RECURSIVE grow_tied(_, _, _, _, _, _)
grow_tied(children, grow_list, min_growing_list, k, axis, grow_step) ==
    IF k > Len(min_growing_list)
    THEN [children |-> children, grow_list |-> grow_list, panic |-> FALSE]
    ELSE LET c == min_growing_list[k]
             prim == children[c]
             prim_min_size == get_min_along_axis(prim, axis)
             prim_max_size == get_max_along_axis(prim, axis)
             prim_size == MaxOf(get_size_along_axis(prim, axis) + grow_step, prim_min_size)
         IN  IF prim_max_size.some /\ prim_size >= prim_max_size.v
             THEN LET maxed == [children EXCEPT
                                   ![c] = set_size_along_axis(prim, axis, prim_max_size.v)]
                  IN  IF vec_remove_panics(grow_list, k - 1)
                      THEN [children |-> maxed, grow_list |-> grow_list, panic |-> TRUE]
                      ELSE grow_tied(maxed, vec_remove(grow_list, k - 1),
                                     min_growing_list, k + 1, axis, grow_step)
             ELSE grow_tied([children EXCEPT ![c] = set_size_along_axis(prim, axis, prim_size)],
                            grow_list, min_growing_list, k + 1, axis, grow_step)

\* remaining_space / min_growing_list.len() panics when the divisor is zero
divides_by_zero(divisor) == divisor = 0

\* the loop condition
grow_continues(st) ==
    st.remaining_space > 0 /\ st.grow_list # <<>> /\ st.depth # 0 /\ ~st.panic

\* one iteration of the while loop; st is (children, grow_list, remaining_space, depth, panic)
grow_iteration(self, axis, st) ==
    LET smallest_size == smallest_size_of(st.children, st.grow_list, axis)
        min_growing_list == min_growing_list_of(st.children, st.grow_list, axis, smallest_size)
        second_smallest_size ==
            second_smallest_size_of(st.children, st.grow_list, axis, smallest_size)
        grow_step == grow_step_of(second_smallest_size, smallest_size,
                                  st.remaining_space, Len(min_growing_list))
        r == IF divides_by_zero(Len(min_growing_list))
             THEN [children |-> st.children, grow_list |-> st.grow_list, panic |-> TRUE]
             ELSE grow_tied(st.children, st.grow_list, min_growing_list, 1, axis, grow_step)
    IN  [ children |-> r.children,
          grow_list |-> r.grow_list,
          remaining_space |-> IF r.panic THEN st.remaining_space
                              ELSE remaining_after(self, r.children, axis),
          depth |-> st.depth - 1,
          panic |-> r.panic ]

RECURSIVE grow_loop(_, _, _)
grow_loop(self, axis, st) ==
    IF grow_continues(st) THEN grow_loop(self, axis, grow_iteration(self, axis, st)) ELSE st

\* grow_entry with a depth counter of two more than the growable children
grow_entry_deeper(self, axis) ==
    LET grow_list == grow_filter(self.children, axis)
    IN  [ children |-> self.children,
          grow_list |-> grow_list,
          remaining_space |-> remaining_before(self, axis),
          depth |-> Len(grow_list) + 2,
          panic |-> FALSE ]

\* the state at loop entry
grow_entry(self, axis) ==
    LET grow_list == grow_filter(self.children, axis)
    IN  [ children |-> self.children,
          grow_list |-> grow_list,
          remaining_space |-> remaining_before(self, axis),
          depth |-> Len(grow_list) + 1,
          panic |-> FALSE ]

\* grow_cross that stretches every child, whatever its sizing mode
grow_cross_every_child(self, children, axis) ==
    LET off_axis_size == get_size_along_axis(self, Not(axis)) - (2 * self.padding)
    IN  [c \in 1..Len(children) |->
            set_size_along_axis(children[c], Not(axis), off_axis_size)]

\* grow_cross with the padding left in off_axis_size
grow_cross_unpadded(self, children, axis) ==
    LET off_axis_size == get_size_along_axis(self, Not(axis))
    IN  [c \in 1..Len(children) |->
            IF get_sizing_along_axis(children[c], Not(axis)).kind = "Grow"
            THEN set_size_along_axis(children[c], Not(axis), off_axis_size)
            ELSE children[c]]

\* the second grow_list and the loop that stretches its members across the axis
grow_cross(self, children, axis) ==
    LET off_axis_size == get_size_along_axis(self, Not(axis)) - (2 * self.padding)
    IN  [c \in 1..Len(children) |->
            IF get_sizing_along_axis(children[c], Not(axis)).kind = "Grow"
            THEN set_size_along_axis(children[c], Not(axis), off_axis_size)
            ELSE children[c]]

RECURSIVE grow_sizing(_)
\* the final for loop: container.grow_sizing() on every child in order;
\* a panic in a child unwinds through the callers and leaves the rest untouched
RECURSIVE grow_children(_, _)
grow_children(children, i) ==
    IF i > Len(children) THEN [children |-> children, panic |-> FALSE]
    ELSE LET r == grow_sizing(children[i])
             done == [children EXCEPT ![i] = r.node]
         IN  IF r.panic THEN [children |-> done, panic |-> TRUE]
             ELSE grow_children(done, i + 1)

\* what follows the while loop, from the state st the loop ended in: the
\* cross-axis stretch and the calls on the children
grow_finish(self, st) ==
    IF st.panic
    THEN [node |-> [self EXCEPT !.children = st.children], panic |-> TRUE]
    ELSE LET r == grow_children(grow_cross(self, st.children, main_axis(self)), 1)
         IN  [node |-> [self EXCEPT !.children = r.children], panic |-> r.panic]

\* the result is the node as the call leaves it and whether the call panicked
grow_sizing(self) ==
    LET axis == main_axis(self)
    IN  grow_finish(self, grow_loop(self, axis, grow_entry(self, axis)))

----------------------------------------------------------------------------
(* Rectangle::set_child_positions *)

RECURSIVE set_child_positions(_)
\* place_children that moves each child by the cursor from where it was
RECURSIVE place_children_from_old(_, _, _, _)
place_children_from_old(self, children, i, child_position) ==
    IF i > Len(children) THEN children
    ELSE LET prim == [children[i] EXCEPT
                          !.position = <<@[1] + child_position[1], @[2] + child_position[2]>>]
             next == IF self.layout_mode = "TopToBottom"
                     THEN <<child_position[1], child_position[2] + prim.height + self.child_gap>>
                     ELSE <<child_position[1] + prim.width + self.child_gap, child_position[2]>>
         IN  place_children_from_old(self, [children EXCEPT ![i] = set_child_positions(prim)],
                                     i + 1, next)

\* place_children with the cursor advanced by the child's size alone
RECURSIVE place_children_no_gap(_, _, _, _)
place_children_no_gap(self, children, i, child_position) ==
    IF i > Len(children) THEN children
    ELSE LET prim == [children[i] EXCEPT !.position = child_position]
             next == IF self.layout_mode = "TopToBottom"
                     THEN <<child_position[1], child_position[2] + prim.height>>
                     ELSE <<child_position[1] + prim.width, child_position[2]>>
         IN  place_children_no_gap(self, [children EXCEPT ![i] = set_child_positions(prim)],
                                   i + 1, next)

\* the for loop over self.children with the running child_position
RECURSIVE place_children(_, _, _, _)
place_children(self, children, i, child_position) ==
    IF i > Len(children) THEN children
    ELSE LET prim == [children[i] EXCEPT !.position = child_position]
             next == IF self.layout_mode = "TopToBottom"
                     THEN <<child_position[1], child_position[2] + prim.height + self.child_gap>>
                     ELSE <<child_position[1] + prim.width + self.child_gap, child_position[2]>>
         IN  place_children(self, [children EXCEPT ![i] = set_child_positions(prim)],
                            i + 1, next)

set_child_positions(self) ==
    [self EXCEPT !.children =
        place_children(self, self.children, 1,
                       <<self.position[1] + self.padding, self.position[2] + self.padding>>)]

----------------------------------------------------------------------------
(* The tree a caller builds *)

\* Rectangle { ..Default::default() }: the fields a caller may set
DefaultPolicy ==
    [ min_width |-> 0, min_height |-> 0,
      max_width |-> NoneI32, max_height |-> NoneI32,
      layout_mode |-> "LeftToRight",
      sizing |-> [width |-> Fit, height |-> Fit],
      padding |-> 0,
      child_gap |-> 0 ]

FIT == [width |-> Fit, height |-> Fit]
GROW == [width |-> Grow, height |-> Grow]

RootSizings == {FIT, GROW, [width |-> Fixed(FixedV), height |-> Fixed(FixedV)]}

\* the Rectangles a caller pushes as children: Fit and Grow nodes, bare or with
\* a minimum or a maximum, and a node of fixed width
ChildPolicies ==
    { [DefaultPolicy EXCEPT !.sizing = FIT],
      [DefaultPolicy EXCEPT !.sizing = FIT, !.min_width = MinV, !.min_height = MinV],
      [DefaultPolicy EXCEPT !.sizing = GROW],
      [DefaultPolicy EXCEPT !.sizing = GROW, !.min_width = MinV, !.min_height = MinV],
      [DefaultPolicy EXCEPT !.sizing = GROW, !.max_width = SomeI32(MaxV),
                            !.max_height = SomeI32(MaxV)],
      [DefaultPolicy EXCEPT !.sizing = [width |-> Fixed(FixedV), height |-> Grow]] }

\* the Rectangles a caller makes the root
RootPolicies ==
    { [DefaultPolicy EXCEPT !.sizing = s, !.layout_mode = l, !.padding = g, !.child_gap = g] :
        s \in RootSizings, l \in {"LeftToRight", "TopToBottom"}, g \in {0, PadV} }

\* the tree of the worked example: a LeftToRight root, Grow on both axes, with
\* padding 16 and child_gap 16, holding three Grow children
ExampleChild == Rectangle([DefaultPolicy EXCEPT !.sizing = GROW])
ExampleRoot ==
    [ Rectangle([DefaultPolicy EXCEPT !.sizing = GROW, !.padding = 16, !.child_gap = 16])
      EXCEPT !.children = <<ExampleChild, ExampleChild, ExampleChild>> ]
ExampleWidth == 800
ExampleHeight == 600

RECURSIVE NodeCount(_)
RECURSIVE CountChildren(_, _)
CountChildren(children, i) ==
    IF i > Len(children) THEN 0
    ELSE NodeCount(children[i]) + CountChildren(children, i + 1)
NodeCount(self) == 1 + CountChildren(self.children, 1)

\* the paths (sequences of child indices) of the nodes of a tree
RECURSIVE Paths(_)
Paths(self) ==
    {<<>>} \cup UNION { { <<i>> \o q : q \in Paths(self.children[i]) } :
                        i \in 1..Len(self.children) }

RECURSIVE NodeAt(_, _)
NodeAt(self, path) ==
    IF path = <<>> THEN self ELSE NodeAt(self.children[Head(path)], Tail(path))

\* children.push(child) on the node at path
RECURSIVE push_child(_, _, _)
push_child(self, path, child) ==
    IF path = <<>> THEN [self EXCEPT !.children = Append(@, child)]
    ELSE [self EXCEPT !.children[Head(path)] = push_child(@, Tail(path), child)]

----------------------------------------------------------------------------
(* UI::compute_layout *)

\* compute_layout with grow_sizing called before grow_root
compute_layout_grow_first == <<"fit_sizing", "grow_sizing", "grow_root", "set_child_positions">>

\* the calls of compute_layout, in the order of its body
compute_layout == <<"fit_sizing", "grow_root", "grow_sizing", "set_child_positions">>

Returned == Len(compute_layout) + 1

\* the while loop has not been entered
NoLoop == [phase |-> "idle"]
\* no par_iter is running
NoFan == [stage |-> "idle"]
\* draw has not been called
NoRender == [phase |-> "idle"]

Init ==
    /\ \/ /\ root_item \in { Rectangle(p) : p \in RootPolicies }
          /\ size = <<ViewW, ViewH>>
       \/ /\ root_item = ExampleRoot
          /\ size = <<ExampleWidth, ExampleHeight>>
    /\ pc = 0
    /\ panicked = FALSE
    /\ trace = <<>>
    /\ loop = NoLoop
    /\ fan = NoFan
    /\ render = NoRender

\* the caller adds a Rectangle to the tree before the layout is computed
AddChild ==
    /\ pc = 0
    /\ NodeCount(root_item) < MaxNodes
    /\ \E path \in Paths(root_item), p \in ChildPolicies :
           root_item' = push_child(root_item, path, Rectangle(p))
    /\ UNCHANGED <<size, pc, panicked, trace, loop, fan, render>>

\* the caller calls compute_layout
Call ==
    /\ pc = 0
    /\ pc' = 1
    /\ UNCHANGED <<root_item, size, panicked, trace, loop, fan, render>>

Finished(call, tree) ==
    /\ root_item' = tree
    /\ trace' = Append(trace, [call |-> call, tree |-> tree])
    /\ pc' = pc + 1
    /\ UNCHANGED <<size, panicked, loop, fan, render>>

FitSizing ==
    /\ pc \in 1..Len(compute_layout) /\ ~panicked
    /\ compute_layout[pc] = "fit_sizing"
    /\ Finished("fit_sizing", fit_sizing(root_item))

GrowRoot ==
    /\ pc \in 1..Len(compute_layout) /\ ~panicked
    /\ compute_layout[pc] = "grow_root"
    /\ Finished("grow_root", grow_root(size, root_item))

GrowSizing ==
    /\ pc \in 1..Len(compute_layout) /\ ~panicked
    /\ compute_layout[pc] = "grow_sizing"
    /\ LET r == grow_sizing(root_item)
       IN  /\ ~r.panic
           /\ Finished("grow_sizing", r.node)

\* grow_sizing panics in Vec::remove: compute_layout is unwound
GrowSizingPanics ==
    /\ pc \in 1..Len(compute_layout) /\ ~panicked
    /\ compute_layout[pc] = "grow_sizing"
    /\ LET r == grow_sizing(root_item)
       IN  /\ r.panic
           /\ root_item' = r.node
           /\ panicked' = TRUE
           /\ UNCHANGED <<size, pc, trace, loop, fan, render>>

SetChildPositions ==
    /\ pc \in 1..Len(compute_layout) /\ ~panicked
    /\ compute_layout[pc] = "set_child_positions"
    /\ Finished("set_child_positions", set_child_positions(root_item))

Next ==
    \/ AddChild
    \/ Call
    \/ FitSizing
    \/ GrowRoot
    \/ GrowSizing
    \/ GrowSizingPanics
    \/ SetChildPositions

Spec == Init /\ [][Next]_vars

----------------------------------------------------------------------------
(* Rectangle::grow_sizing of the root, one iteration of its while loop at a time *)

AtGrowSizing ==
    /\ pc \in 1..Len(compute_layout) /\ ~panicked
    /\ compute_layout[pc] = "grow_sizing"

\* used_space, remaining_space, grow_list and depth are computed
GrowEnter ==
    /\ AtGrowSizing
    /\ loop.phase = "idle"
    /\ LET st == grow_entry(root_item, main_axis(root_item))
       IN  loop' = [phase |-> "running", entry |-> st, prev |-> st, st |-> st, iters |-> 0]
    /\ UNCHANGED <<root_item, size, pc, panicked, trace, fan, render>>

\* the loop condition holds and the body runs once
GrowIterate ==
    /\ AtGrowSizing
    /\ loop.phase = "running"
    /\ grow_continues(loop.st)
    /\ LET st == grow_iteration(root_item, main_axis(root_item), loop.st)
       IN  /\ ~st.panic
           /\ loop' = [loop EXCEPT !.prev = loop.st, !.st = st, !.iters = @ + 1]
           /\ root_item' = [root_item EXCEPT !.children = st.children]
    /\ UNCHANGED <<size, pc, panicked, trace, fan, render>>

\* the body panics: compute_layout is unwound
GrowIteratePanics ==
    /\ AtGrowSizing
    /\ loop.phase = "running"
    /\ grow_continues(loop.st)
    /\ LET st == grow_iteration(root_item, main_axis(root_item), loop.st)
       IN  /\ st.panic
           /\ loop' = [loop EXCEPT !.prev = loop.st, !.st = st, !.iters = @ + 1]
           /\ root_item' = [root_item EXCEPT !.children = st.children]
    /\ panicked' = TRUE
    /\ UNCHANGED <<size, pc, trace, fan, render>>

\* the loop condition fails: the cross-axis stretch and the children's calls run
GrowExit ==
    /\ AtGrowSizing
    /\ loop.phase = "running"
    /\ ~grow_continues(loop.st)
    /\ LET r == grow_finish(root_item, loop.st)
       IN  /\ ~r.panic
           /\ root_item' = r.node
           /\ trace' = Append(trace, [call |-> "grow_sizing", tree |-> r.node])
    /\ pc' = pc + 1
    /\ loop' = [loop EXCEPT !.phase = "exited"]
    /\ UNCHANGED <<size, panicked, fan, render>>

\* a child's grow_sizing panics after the root's loop has ended
GrowExitPanics ==
    /\ AtGrowSizing
    /\ loop.phase = "running"
    /\ ~grow_continues(loop.st)
    /\ LET r == grow_finish(root_item, loop.st)
       IN  /\ r.panic
           /\ root_item' = r.node
    /\ panicked' = TRUE
    /\ loop' = [loop EXCEPT !.phase = "exited"]
    /\ UNCHANGED <<size, pc, trace, fan, render>>

NextLoop ==
    \/ AddChild
    \/ Call
    \/ FitSizing
    \/ GrowRoot
    \/ GrowEnter
    \/ GrowIterate
    \/ GrowIteratePanics
    \/ GrowExit
    \/ GrowExitPanics
    \/ SetChildPositions

SpecLoop == Init /\ [][NextLoop]_vars

----------------------------------------------------------------------------
(* Rectangle::grow_sizing of the root, one par_iter task at a time: the five
   par_iter calls up to the first grow step, each with one task per child that
   locks the child, reads it and unlocks it *)

\* the par_iter calls in the order grow_sizing makes them
FanStages == <<"used_space", "grow_list", "smallest_size", "min_growing_list", "filter">>

\* the children a caller pushes to the root before the tasks are followed
FanPolicies ==
    { [DefaultPolicy EXCEPT !.sizing = FIT, !.min_width = MinV, !.min_height = MinV],
      [DefaultPolicy EXCEPT !.sizing = GROW],
      [DefaultPolicy EXCEPT !.sizing = GROW, !.min_width = MinV, !.min_height = MinV],
      [DefaultPolicy EXCEPT !.sizing = [width |-> Fixed(FixedV), height |-> Grow]] }

\* what the closure of a par_iter call reads from the child it has locked
fan_read(stage, prim, axis, res) ==
    CASE stage = "used_space" -> get_size_along_axis(prim, axis)
      [] stage = "grow_list" -> get_sizing_along_axis(prim, axis).kind = "Grow"
      [] stage = "smallest_size" -> get_size_along_axis(prim, axis)
      [] stage = "min_growing_list" -> get_size_along_axis(prim, axis) <= res.smallest_size
      [] stage = "filter" -> get_size_along_axis(prim, axis) > res.smallest_size

\* .sum() over the values the tasks produced, in the order they finished
RECURSIVE fan_sum(_, _, _)
fan_sum(val, out, j) ==
    IF j > Len(out) THEN 0 ELSE val[out[j]] + fan_sum(val, out, j + 1)

\* .min().unwrap_or(0) over the values the tasks produced
fan_min(val, out) ==
    IF out = <<>> THEN 0
    ELSE CHOOSE m \in Range(val) : \A k \in 1..Len(val) : m <= val[k]

\* fan_collect that pushes the kept items in the order their tasks finished
fan_collect_as_finished(items, val, out) ==
    LET kept == SelectSeq(out, LAMBDA k : val[k])
    IN  [j \in 1..Len(kept) |-> items[kept[j]]]

\* .filter(..).cloned().collect() into a Vec: the kept items in the order of
\* the iterator, whatever the order the tasks finished in
fan_collect(items, val, out) ==
    LET kept == SelectSeq(Indices(Len(items)), LAMBDA k : val[k])
    IN  [j \in 1..Len(kept) |-> items[kept[j]]]

\* a par_iter call over items: no task has started
fan_begin(stage, items, res) ==
    [ stage |-> stage,
      items |-> items,
      task |-> [k \in 1..Len(items) |-> "waiting"],
      val |-> [k \in 1..Len(items) |->
                  IF stage \in {"grow_list", "min_growing_list", "filter"} THEN FALSE ELSE 0],
      out |-> <<>>,
      res |-> res ]

\* the results before any par_iter call has returned
NoResults ==
    [ used_space |-> 0, remaining_space |-> 0, grow_list |-> <<>>,
      smallest_size |-> 0, min_growing_list |-> <<>>, filter |-> <<>> ]

\* the children some task holds the lock of
fan_locked == { fan.items[k] : k \in { j \in 1..Len(fan.items) : fan.task[j] = "holding" } }

FanRunning == fan.stage \in Range(FanStages)

\* the caller pushes a Rectangle to the root before the layout is computed
FanAddChild ==
    /\ pc = 0
    /\ NodeCount(root_item) < MaxNodes
    /\ \E p \in FanPolicies :
           root_item' = push_child(root_item, <<>>, Rectangle(p))
    /\ UNCHANGED <<size, pc, panicked, trace, loop, fan, render>>

\* grow_sizing of the root makes its first par_iter call
FanStart ==
    /\ AtGrowSizing
    /\ fan.stage = "idle"
    /\ fan' = fan_begin("used_space", Indices(Len(root_item.children)), NoResults)
    /\ UNCHANGED <<root_item, size, pc, panicked, trace, loop, render>>

\* a task takes the lock of its child, which no other task holds, and reads it
FanAcquire ==
    /\ FanRunning
    /\ \E k \in 1..Len(fan.items) :
           /\ fan.task[k] = "waiting"
           /\ fan.items[k] \notin fan_locked
           /\ fan' = [fan EXCEPT
                  !.task[k] = "holding",
                  !.val[k] = fan_read(fan.stage, root_item.children[fan.items[k]],
                                      main_axis(root_item), fan.res)]
    /\ UNCHANGED <<root_item, size, pc, panicked, trace, loop, render>>

\* a task drops its lock and hands its value over
FanRelease ==
    /\ FanRunning
    /\ \E k \in 1..Len(fan.items) :
           /\ fan.task[k] = "holding"
           /\ fan' = [fan EXCEPT !.task[k] = "done", !.out = Append(@, k)]
    /\ UNCHANGED <<root_item, size, pc, panicked, trace, loop, render>>

\* the results of a par_iter call, once all its tasks have finished
fan_joined ==
    CASE fan.stage = "used_space" ->
             LET used == fan_sum(fan.val, fan.out, 1)
             IN  [fan.res EXCEPT
                     !.used_space = used,
                     !.remaining_space =
                         get_size_along_axis(root_item, main_axis(root_item))
                             - (root_item.padding * 2)
                             - (root_item.child_gap * (Len(root_item.children) - 1))
                             - used]
      [] fan.stage = "grow_list" ->
             [fan.res EXCEPT !.grow_list = fan_collect(fan.items, fan.val, fan.out)]
      [] fan.stage = "smallest_size" ->
             [fan.res EXCEPT !.smallest_size = fan_min(fan.val, fan.out)]
      [] fan.stage = "min_growing_list" ->
             [fan.res EXCEPT !.min_growing_list = fan_collect(fan.items, fan.val, fan.out)]
      [] fan.stage = "filter" ->
             [fan.res EXCEPT !.filter = fan_collect(fan.items, fan.val, fan.out)]

\* the par_iter call returns and grow_sizing goes on to the next one, or past
\* the loop when its condition fails
FanJoin ==
    /\ FanRunning
    /\ \A k \in 1..Len(fan.items) : fan.task[k] = "done"
    /\ LET res == fan_joined
       IN  fan' =
             CASE fan.stage = "used_space" ->
                      fan_begin("grow_list", Indices(Len(root_item.children)), res)
               [] fan.stage = "grow_list" ->
                      IF res.remaining_space > 0 /\ res.grow_list # <<>>
                      THEN fan_begin("smallest_size", res.grow_list, res)
                      ELSE fan_begin("done", <<>>, res)
               [] fan.stage = "smallest_size" ->
                      fan_begin("min_growing_list", res.grow_list, res)
               [] fan.stage = "min_growing_list" ->
                      fan_begin("filter", res.grow_list, res)
               [] fan.stage = "filter" ->
                      fan_begin("done", <<>>, res)
    /\ UNCHANGED <<root_item, size, pc, panicked, trace, loop, render>>

NextFan ==
    \/ FanAddChild
    \/ Call
    \/ FitSizing
    \/ GrowRoot
    \/ FanStart
    \/ FanAcquire
    \/ FanRelease
    \/ FanJoin

SpecFan == Init /\ [][NextFan]_vars

----------------------------------------------------------------------------
(* UI::compute_layout called on a tree whose width, height and position fields
   hold earlier values, and called a second time *)

\* the children a caller pushes before compute_layout is called twice
TwicePolicies ==
    { [DefaultPolicy EXCEPT !.sizing = FIT, !.min_width = MinV, !.min_height = MinV],
      [DefaultPolicy EXCEPT !.sizing = GROW],
      [DefaultPolicy EXCEPT !.sizing = GROW, !.max_width = SomeI32(MaxV),
                            !.max_height = SomeI32(MaxV)],
      [DefaultPolicy EXCEPT !.sizing = [width |-> Fixed(FixedV), height |-> Grow]] }

\* the pub fields width, height and position of every node set to v
RECURSIVE overwrite(_, _)
overwrite(self, v) ==
    [self EXCEPT !.width = v, !.height = v, !.position = <<v, v>>,
                 !.children = [i \in 1..Len(self.children) |-> overwrite(self.children[i], v)]]

TwiceAddChild ==
    /\ pc = 0
    /\ NodeCount(root_item) < MaxNodes
    /\ \E path \in Paths(root_item), p \in TwicePolicies :
           root_item' = push_child(root_item, path, Rectangle(p))
    /\ UNCHANGED <<size, pc, panicked, trace, loop, fan, render>>

\* the caller calls compute_layout on a tree whose nodes hold stale values
CallStale ==
    /\ pc = 0
    /\ root_item' = overwrite(root_item, StaleV)
    /\ pc' = 1
    /\ UNCHANGED <<size, panicked, trace, loop, fan, render>>

\* compute_layout has returned and the caller calls it again
CallAgain ==
    /\ pc = Returned
    /\ Len(trace) = Len(compute_layout)
    /\ pc' = 1
    /\ UNCHANGED <<root_item, size, panicked, trace, loop, fan, render>>

NextTwice ==
    \/ TwiceAddChild
    \/ Call
    \/ CallStale
    \/ FitSizing
    \/ GrowRoot
    \/ GrowSizing
    \/ GrowSizingPanics
    \/ SetChildPositions
    \/ CallAgain

SpecTwice == Init /\ [][NextTwice]_vars

----------------------------------------------------------------------------
(* UI::draw and Rectangle::draw, one step of one call at a time, on the trees
   of the two-call specification once compute_layout has returned *)

\* the arguments of make_ss_rectangle: what a call of draw emits
draw_mesh(self) ==
    [ x |-> self.position[1], y |-> self.position[2],
      width |-> self.width, height |-> self.height ]

\* a call of draw on the node at path that has not run its first statement
draw_frame(path) == [path |-> path, next |-> 1, emitted |-> FALSE]

\* draw_child that takes the children from the last to the first
draw_child_backwards(children, step) == Len(children) + 1 - step

\* for child in &self.children: the child the loop visits at its step-th turn
draw_child(children, step) == step

\* the call of draw that is running: the innermost one
draw_top == render.stack[Len(render.stack)]

\* UI::draw locks the root and calls its draw
DrawStart ==
    /\ pc = Returned
    /\ render.phase = "idle"
    /\ render' = [phase |-> "drawing", stack |-> <<draw_frame(<<>>)>>, out |-> <<>>]
    /\ UNCHANGED <<root_item, size, pc, panicked, trace, loop, fan>>

\* make_ss_rectangle and mesh.draw: the node's own rectangle is emitted
DrawEmit ==
    /\ render.phase = "drawing"
    /\ ~draw_top.emitted
    /\ render' = [render EXCEPT
           !.stack[Len(render.stack)].emitted = TRUE,
           !.out = Append(@, [path |-> draw_top.path,
                              mesh |-> draw_mesh(NodeAt(root_item, draw_top.path))])]
    /\ UNCHANGED <<root_item, size, pc, panicked, trace, loop, fan>>

\* the for loop locks its next child and calls the child's draw
DrawChild ==
    /\ render.phase = "drawing"
    /\ draw_top.emitted
    /\ LET self == NodeAt(root_item, draw_top.path)
       IN  /\ draw_top.next <= Len(self.children)
           /\ render' = [render EXCEPT
                  !.stack = Append(
                      [@ EXCEPT ![Len(@)].next = @ + 1],
                      draw_frame(Append(draw_top.path,
                                        draw_child(self.children, draw_top.next))))]
    /\ UNCHANGED <<root_item, size, pc, panicked, trace, loop, fan>>

\* the for loop is over and the call returns to its caller
DrawReturn ==
    /\ render.phase = "drawing"
    /\ draw_top.emitted
    /\ draw_top.next > Len(NodeAt(root_item, draw_top.path).children)
    /\ render' = [render EXCEPT
           !.stack = SubSeq(@, 1, Len(@) - 1),
           !.phase = IF Len(render.stack) = 1 THEN "done" ELSE "drawing"]
    /\ UNCHANGED <<root_item, size, pc, panicked, trace, loop, fan>>

NextDraw ==
    \/ TwiceAddChild
    \/ Call
    \/ FitSizing
    \/ GrowRoot
    \/ GrowSizing
    \/ GrowSizingPanics
    \/ SetChildPositions
    \/ DrawStart
    \/ DrawEmit
    \/ DrawChild
    \/ DrawReturn

SpecDraw == Init /\ [][NextDraw]_vars

----------------------------------------------------------------------------
(* Rectangle::fit_sizing on childless Rectangles of every policy *)

SizingModes == {Fit, Grow, Fixed(FixedV)}

\* the childless Rectangles a caller can declare: any sizing, with or without
\* minimum, maximum and padding
LeafPolicies ==
    { [ min_width |-> mw, min_height |-> mh,
        max_width |-> xw, max_height |-> xh,
        layout_mode |-> l,
        sizing |-> [width |-> sw, height |-> sh],
        padding |-> g,
        child_gap |-> 0 ] :
        mw \in {0, MinV}, mh \in {0, MinV},
        xw \in {NoneI32, SomeI32(MaxV)}, xh \in {NoneI32, SomeI32(MaxV)},
        l \in {"LeftToRight", "TopToBottom"},
        sw \in SizingModes, sh \in SizingModes,
        g \in {0, PadV} }

\* a childless Rectangle, alone or as the only child of a root
InitFit ==
    /\ \E leaf \in LeafPolicies :
           \/ root_item = Rectangle(leaf)
           \/ \E p \in RootPolicies :
                  root_item = push_child(Rectangle(p), <<>>, Rectangle(leaf))
    /\ size = <<ViewW, ViewH>>
    /\ pc = 0
    /\ panicked = FALSE
    /\ trace = <<>>
    /\ loop = NoLoop
    /\ fan = NoFan
    /\ render = NoRender

NextFit ==
    \/ Call
    \/ FitSizing

SpecFit == InitFit /\ [][NextFit]_vars

----------------------------------------------------------------------------
(* Notions the properties are stated with *)

\* the tree a finished call of compute_layout left
Fitted == trace[1].tree
Forced == trace[2].tree
Grown == trace[3].tree

NodesOf(tree) == { NodeAt(tree, p) : p \in Paths(tree) }

SizeOn(n, axis) == IF axis = Horizontal THEN n.width ELSE n.height
MinOn(n, axis) == IF axis = Horizontal THEN n.min_width ELSE n.min_height
MaxOn(n, axis) == IF axis = Horizontal THEN n.max_width ELSE n.max_height
ModeOn(n, axis) == IF axis = Horizontal THEN n.sizing.width ELSE n.sizing.height
MainOf(c) == IF c.layout_mode = "LeftToRight" THEN Horizontal ELSE Vertical
CrossOf(c) == IF c.layout_mode = "LeftToRight" THEN Vertical ELSE Horizontal

RECURSIVE SumUpTo(_, _, _)
SumUpTo(children, n, axis) ==
    IF n = 0 THEN 0 ELSE SumUpTo(children, n - 1, axis) + SizeOn(children[n], axis)

\* the sum of the children's sizes on an axis
ChildSum(c, axis) == SumUpTo(c.children, Len(c.children), axis)

\* the space a container offers its children on its main axis
Offered(c) ==
    SizeOn(c, MainOf(c)) - 2 * c.padding
        - (IF Len(c.children) = 0 THEN 0 ELSE (Len(c.children) - 1) * c.child_gap)

IsGrowChild(c, i) == ModeOn(c.children[i], MainOf(c)).kind = "Grow"

AtMax(n, axis) == MaxOn(n, axis).some /\ SizeOn(n, axis) = MaxOn(n, axis).v

----------------------------------------------------------------------------
(* C1 *)

\* C1 (grow conservation): once the grow pass has finished, in every container
\* whose children left remaining space >= 0 after the fit pass and which has a
\* Grow child on its main axis that is not at its max, the children's main-axis
\* sizes sum to exactly the container's size less paddings and gaps; when every
\* Grow child is at its max the sum is at most that.
C1_GrowConservation ==
    Len(trace) >= 3 =>
        \A p \in Paths(Grown) :
            LET c == NodeAt(Grown, p)
                before == [c EXCEPT !.children = NodeAt(Fitted, p).children]
                grows == { i \in 1..Len(c.children) : IsGrowChild(c, i) }
            IN  (grows # {} /\ Offered(c) - ChildSum(before, MainOf(c)) >= 0) =>
                    IF \E i \in grows : ~AtMax(c.children[i], MainOf(c))
                    THEN ChildSum(c, MainOf(c)) = Offered(c)
                    ELSE ChildSum(c, MainOf(c)) <= Offered(c)

----------------------------------------------------------------------------
(* C2 *)

Clamped(n, axis) ==
    /\ MinOn(n, axis) <= SizeOn(n, axis)
    /\ MaxOn(n, axis).some => SizeOn(n, axis) <= MaxOn(n, axis).v

\* C2 (clamp respect): after the fit pass, after root forcing, after the grow
\* pass and after the position pass, every node has min <= size, and
\* size <= max when a max is set, on both axes.
C2_ClampRespect ==
    (Len(trace) >= 1 /\ ~panicked) =>
        \A n \in NodesOf(root_item) : Clamped(n, Horizontal) /\ Clamped(n, Vertical)

----------------------------------------------------------------------------
(* C3 *)

\* C3 (a layout pass runs to completion): compute_layout never aborts; the
\* removal of maxed-out children from the growable list never addresses an
\* index outside the list.
C3_RunsToCompletion == ~panicked

----------------------------------------------------------------------------
(* C4 *)

\* C4 (position tiling): after the position pass, in every container the first
\* child sits at the container's position plus (padding, padding), and each
\* next child's main-axis coordinate is the previous child's coordinate plus
\* that child's main-axis size after the grow pass plus child_gap.
C4_PositionTiling ==
    pc = Returned =>
        \A p \in Paths(root_item) :
            LET c == NodeAt(root_item, p)
                g == NodeAt(Grown, p)
                k == IF c.layout_mode = "LeftToRight" THEN 1 ELSE 2
            IN  /\ Len(c.children) >= 1 =>
                       c.children[1].position =
                           <<c.position[1] + c.padding, c.position[2] + c.padding>>
                /\ \A i \in 1..(Len(c.children) - 1) :
                       c.children[i + 1].position[k] =
                           c.children[i].position[k]
                               + SizeOn(g.children[i], MainOf(c)) + c.child_gap

\* a laid-out TopToBottom container with a gap and two children, the first of
\* them grown beyond its fitted size
W4_Tiled ==
    /\ pc = Returned
    /\ root_item.layout_mode = "TopToBottom"
    /\ root_item.child_gap > 0
    /\ Len(root_item.children) >= 2
    /\ root_item.children[1].height > Fitted.children[1].height
    /\ root_item.children[2].position[2] > root_item.children[1].height

----------------------------------------------------------------------------
(* C5 *)

NoGrow(tree) ==
    \A n \in NodesOf(tree) : n.sizing.width.kind # "Grow" /\ n.sizing.height.kind # "Grow"

\* the largest size of the children on an axis, 0 when none is positive
ChildMax(c, axis) ==
    LET S == { SizeOn(c.children[i], axis) : i \in 1..Len(c.children) } \cup {0}
    IN  CHOOSE m \in S : \A x \in S : x <= m

\* the bounding box of a container's content on an axis
Box(c, axis) ==
    IF axis = MainOf(c)
    THEN ChildSum(c, axis) + 2 * c.padding
            + (IF Len(c.children) = 0 THEN 0 ELSE (Len(c.children) - 1) * c.child_gap)
    ELSE ChildMax(c, axis) + 2 * c.padding

ClampTo(x, n, axis) ==
    LET lo == IF x >= MinOn(n, axis) THEN x ELSE MinOn(n, axis)
    IN  IF MaxOn(n, axis).some /\ lo > MaxOn(n, axis).v THEN MaxOn(n, axis).v ELSE lo

Orderings(n) ==
    { f \in [1..n -> 1..n] : \A i, j \in 1..n : f[i] = f[j] => i = j }

\* the root's size does not depend on the order of its children
OrderIndependent(tree) ==
    \A f \in Orderings(Len(tree.children)) :
        LET other == fit_sizing([tree EXCEPT
                         !.children = [i \in 1..Len(tree.children) |-> tree.children[f[i]]]])
        IN  other.width = tree.width /\ other.height = tree.height

\* C5 as stated (fit minimality): in a tree with no Grow node the fit pass
\* leaves the root with the bounding box of its content on both axes,
\* whatever the order of the children.
C5_FitMinimality ==
    (Len(trace) >= 1 /\ NoGrow(Fitted)) =>
        /\ Fitted.width = Box(Fitted, Horizontal)
        /\ Fitted.height = Box(Fitted, Vertical)
        /\ OrderIndependent(Fitted)

\* C5 as amended: in a tree with no Grow node the fit pass leaves the root, on
\* each axis where its sizing mode is Fit, with the bounding box of its content
\* clamped to the root's min and max, and on an axis where its mode is Fixed(v)
\* with v, whatever the order of the children.
C5_FitMinimalityAmended ==
    (Len(trace) >= 1 /\ NoGrow(Fitted)) =>
        /\ \A axis \in {Horizontal, Vertical} :
               SizeOn(Fitted, axis) =
                   IF ModeOn(Fitted, axis).kind = "Fixed" THEN ModeOn(Fitted, axis).v
                   ELSE ClampTo(Box(Fitted, axis), Fitted, axis)
        /\ OrderIndependent(Fitted)

\* a fitted Fit root with a gap and children of different sizes, none of them Grow
W5_FitBox ==
    /\ Len(trace) >= 1
    /\ NoGrow(Fitted)
    /\ Fitted.sizing = FIT
    /\ Fitted.child_gap > 0
    /\ Len(Fitted.children) >= 2
    /\ Fitted.children[1].width # Fitted.children[2].width
    /\ Fitted.width > 2 * Fitted.padding + Fitted.child_gap

----------------------------------------------------------------------------
(* C6 *)

Distance(a, b) == IF a >= b THEN a - b ELSE b - a

\* C6 (convergence toward equality): once the grow pass has finished, the
\* children of one container that are Grow on its main axis and have the same
\* min and the same max on that axis have the same main-axis size, up to the
\* one unit integer division may lose.
C6_ConvergenceToEquality ==
    Len(trace) >= 3 =>
        \A c \in NodesOf(Grown) :
            \A i, j \in 1..Len(c.children) :
                ( /\ IsGrowChild(c, i) /\ IsGrowChild(c, j)
                  /\ MinOn(c.children[i], MainOf(c)) = MinOn(c.children[j], MainOf(c))
                  /\ MaxOn(c.children[i], MainOf(c)) = MaxOn(c.children[j], MainOf(c)) )
                => Distance(SizeOn(c.children[i], MainOf(c)),
                            SizeOn(c.children[j], MainOf(c))) <= 1

----------------------------------------------------------------------------
(* C7 *)

\* C7 (root forcing): from root forcing on, the root's size is the viewport's
\* on each axis where the root is Grow and the size the fit pass resolved on
\* the other axes; root forcing changes no node but the root.
C7_RootForcing ==
    Len(trace) >= 2 =>
        /\ \A axis \in {Horizontal, Vertical} :
               SizeOn(root_item, axis) =
                   IF ModeOn(root_item, axis).kind = "Grow"
                   THEN (IF axis = Horizontal THEN size[1] ELSE size[2])
                   ELSE SizeOn(Fitted, axis)
        /\ Forced.children = Fitted.children

\* a laid-out Grow root whose fitted size differed from the viewport on both axes
W7_RootForced ==
    /\ pc = Returned
    /\ root_item.sizing = GROW
    /\ Len(root_item.children) >= 1
    /\ Fitted.width # size[1] /\ Fitted.height # size[2]
    /\ root_item.width = size[1] /\ root_item.height = size[2]

----------------------------------------------------------------------------
(* C8 *)

\* C8 (Fixed freezes the dimension): after compute_layout every node whose
\* sizing mode on an axis is Fixed(v) has size v on that axis.
C8_FixedFreezes ==
    pc = Returned =>
        \A n \in NodesOf(root_item) : \A axis \in {Horizontal, Vertical} :
            ModeOn(n, axis).kind = "Fixed" => SizeOn(n, axis) = ModeOn(n, axis).v

\* a laid-out LeftToRight container with space left over, holding a child of
\* Fixed width next to a Grow child that took the space
W8_FixedBesideGrown ==
    /\ pc = Returned
    /\ root_item.layout_mode = "LeftToRight"
    /\ \E i, j \in 1..Len(root_item.children) :
           /\ root_item.children[i].sizing.width.kind = "Fixed"
           /\ root_item.children[j].sizing.width.kind = "Grow"
           /\ root_item.children[j].width > Fitted.children[j].width

----------------------------------------------------------------------------
(* C9 *)

\* the tree of the worked example, whatever its sizes and positions
IsExample(tree) ==
    /\ size = <<ExampleWidth, ExampleHeight>>
    /\ [tree EXCEPT !.children = <<>>, !.width = 0, !.height = 0] =
           [ExampleRoot EXCEPT !.children = <<>>]
    /\ Len(tree.children) = 3
    /\ \A i \in 1..3 :
           [tree.children[i] EXCEPT !.width = 0, !.height = 0, !.position = <<0, 0>>]
               = ExampleChild

\* C9 as stated (worked example): each child is 244 or 245 wide and 568 high,
\* and the children's x-positions are 16, 276 and 536.
C9_WorkedExample ==
    (pc = Returned /\ IsExample(root_item)) =>
        /\ \A i \in 1..3 : /\ root_item.children[i].width \in {244, 245}
                           /\ root_item.children[i].height = 568
        /\ root_item.children[1].position[1] = 16
        /\ root_item.children[2].position[1] = 276
        /\ root_item.children[3].position[1] = 536

\* C9 as amended: each child is 245 wide and 568 high, and the children's
\* x-positions are 16, 277 and 538.
C9_WorkedExampleAmended ==
    (pc = Returned /\ IsExample(root_item)) =>
        /\ \A i \in 1..3 : /\ root_item.children[i].width = 245
                           /\ root_item.children[i].height = 568
        /\ root_item.children[1].position[1] = 16
        /\ root_item.children[2].position[1] = 277
        /\ root_item.children[3].position[1] = 538

\* the worked example, laid out
W9_ExampleLaidOut ==
    /\ pc = Returned
    /\ IsExample(root_item)
    /\ root_item.width = 800 /\ root_item.height = 600

----------------------------------------------------------------------------
(* C10 *)

PassOrder == <<"fit_sizing", "grow_root", "grow_sizing", "set_child_positions">>

Untouched(n) == n.width = 0 /\ n.height = 0 /\ n.position = <<0, 0>>

\* C10 (pass ordering): one call of compute_layout finishes the fit pass, root
\* forcing, the grow pass and the position pass once each, in this order; no
\* size is resolved before the fit pass has finished, the grow pass starts
\* from the tree root forcing left, and no position is assigned before the
\* grow pass has finished.
C10_PassOrdering ==
    /\ Len(trace) <= Len(PassOrder)
    /\ \A i \in 1..Len(trace) : trace[i].call = PassOrder[i]
    /\ (pc >= 1 /\ ~panicked) => Len(trace) = pc - 1
    /\ pc = Returned => Len(trace) = Len(PassOrder)
    /\ Len(trace) = 0 => \A n \in NodesOf(root_item) : Untouched(n)
    /\ Len(trace) >= 2 => Forced = grow_root(size, Fitted)
    /\ Len(trace) <= 3 => \A n \in NodesOf(root_item) : n.position = <<0, 0>>

\* compute_layout has returned after all four passes and placed a child
W10_AllPassesDone ==
    /\ pc = Returned
    /\ Len(trace) = 4
    /\ \E n \in NodesOf(root_item) : n.position # <<0, 0>>
    /\ Grown # Forced

----------------------------------------------------------------------------
(* Notions the properties of the loop are stated with *)

\* the root's loop has run its body at least once, the last time without a panic
Iterated == loop.phase # "idle" /\ loop.iters >= 1 /\ ~loop.st.panic

\* the tied children of a loop state: those min_growing_list would hold
TiedOf(st, axis) ==
    Range(min_growing_list_of(st.children, st.grow_list, axis,
                              smallest_size_of(st.children, st.grow_list, axis)))

\* the children the last iteration removed from grow_list
RemovedLast == Range(loop.prev.grow_list) \ Range(loop.st.grow_list)

\* the tied children of the last iteration that it left at their max
MaxedLast ==
    { c \in TiedOf(loop.prev, MainOf(root_item)) :
          AtMax(loop.st.children[c], MainOf(root_item)) }

----------------------------------------------------------------------------
(* C11 *)

\* C11 (maxed-child removal): after every iteration of the grow loop, the
\* children it removed from the growable list are exactly the tied children
\* whose new main-axis size reached their max; no other growable child is
\* removed.
C11_MaxedChildRemoval == Iterated => RemovedLast = MaxedLast

----------------------------------------------------------------------------
(* C12 *)

\* what the children of a list can still take before they are at their max
RECURSIVE Absorbable(_, _, _, _)
Absorbable(children, list, k, axis) ==
    IF k > Len(list) THEN 0
    ELSE MaxOn(children[list[k]], axis).v - SizeOn(children[list[k]], axis)
             + Absorbable(children, list, k + 1, axis)

\* every Grow child of the root has a max and the leftover exceeds what they absorb
AllMaxedEntry ==
    /\ loop.phase # "idle"
    /\ loop.entry.grow_list # <<>>
    /\ \A c \in Range(loop.entry.grow_list) :
           MaxOn(loop.entry.children[c], MainOf(root_item)).some
    /\ loop.entry.remaining_space >
           Absorbable(loop.entry.children, loop.entry.grow_list, 1, MainOf(root_item))

\* the root's loop is over: its condition failed or it panicked
LoopEnded == loop.phase # "idle" /\ (loop.st.panic \/ ~grow_continues(loop.st))

\* the loop left every Grow child at its max, grow_list empty, space over,
\* and nothing else changed
AllMaxedOutcome ==
    /\ ~loop.st.panic
    /\ loop.st.grow_list = <<>>
    /\ loop.st.remaining_space > 0
    /\ \A c \in 1..Len(loop.st.children) :
           IF c \in Range(loop.entry.grow_list)
           THEN /\ AtMax(loop.st.children[c], MainOf(root_item))
                /\ loop.st.children[c] =
                       set_size_along_axis(loop.entry.children[c], MainOf(root_item),
                                           MaxOn(loop.entry.children[c], MainOf(root_item)).v)
           ELSE loop.st.children[c] = loop.entry.children[c]

\* C12 (all-maxed leftover): when every Grow child of a container has a max on
\* the main axis and the leftover space exceeds what they can absorb, the grow
\* loop ends with every such child at its max and the growable list empty,
\* leaves the rest of the space unconsumed, and changes nothing else.
C12_AllMaxedLeftover == (AllMaxedEntry /\ LoopEnded) => AllMaxedOutcome

----------------------------------------------------------------------------
(* C13 *)

\* the grow step of the last iteration, as the loop computed it
StepLast ==
    LET axis == MainOf(root_item)
        smallest_size == smallest_size_of(loop.prev.children, loop.prev.grow_list, axis)
    IN  grow_step_of(
            second_smallest_size_of(loop.prev.children, loop.prev.grow_list, axis,
                                    smallest_size),
            smallest_size, loop.prev.remaining_space,
            Cardinality(TiedOf(loop.prev, axis)))

\* the last iteration left less space or a shorter growable list
ProgressLast ==
    \/ loop.st.remaining_space < loop.prev.remaining_space
    \/ Len(loop.st.grow_list) < Len(loop.prev.grow_list)

\* C13 (grow-loop termination bound): every iteration of the loop strictly
\* decreases remaining or shrinks the growable list, and the loop runs at most
\* |growable| iterations, |growable| being the number of Grow children at loop
\* entry.
C13_TerminationBound ==
    /\ Iterated => ProgressLast
    /\ loop.phase # "idle" => loop.iters <= Len(loop.entry.grow_list)

\* C13 as the code has it: the loop runs at most |growable| + 1 iterations, the
\* depth counter starting there and falling by one per iteration; an iteration
\* that completes with a positive grow step strictly decreases remaining or
\* shrinks the growable list, one with a zero step need not.
C13_TerminationBoundAmended ==
    /\ (Iterated /\ StepLast > 0) => ProgressLast
    /\ loop.phase # "idle" =>
           /\ loop.iters <= Len(loop.entry.grow_list) + 1
           /\ loop.st.depth = Len(loop.entry.grow_list) + 1 - loop.iters

\* the loop ended on its depth counter after a step of zero that changed nothing
W13_EndedOnDepth ==
    /\ LoopEnded /\ Iterated
    /\ Len(loop.entry.grow_list) >= 2
    /\ loop.iters = Len(loop.entry.grow_list) + 1
    /\ StepLast = 0 /\ ~ProgressLast
    /\ loop.st.remaining_space > 0 /\ loop.st.grow_list # <<>>

----------------------------------------------------------------------------
(* C14 *)

\* the root as the loop has left its children
RootInLoop == [root_item EXCEPT !.children = loop.st.children]

\* what the last iteration added to the children's main-axis sizes
GrantedLast ==
    SumUpTo(loop.st.children, Len(loop.st.children), MainOf(root_item))
        - SumUpTo(loop.prev.children, Len(loop.prev.children), MainOf(root_item))

\* C14 (no over-granting): when remaining >= 0 at the start of a container's
\* grow distribution, remaining >= 0 after every iteration: the children's
\* main-axis sizes plus gaps plus 2*padding never exceed the container's
\* main-axis size, and one iteration hands the tied children at most the space
\* that was remaining.
C14_NoOverGranting ==
    (Iterated /\ loop.entry.remaining_space >= 0) =>
        /\ loop.st.remaining_space >= 0
        /\ ChildSum(RootInLoop, MainOf(root_item)) <= Offered(RootInLoop)
        /\ GrantedLast <= loop.prev.remaining_space

\* an iteration shared all the remaining space among two or more tied children
W14_AllGranted ==
    /\ Iterated
    /\ loop.entry.remaining_space >= 0
    /\ Cardinality(TiedOf(loop.prev, MainOf(root_item))) >= 2
    /\ GrantedLast = loop.prev.remaining_space
    /\ loop.st.remaining_space = 0

----------------------------------------------------------------------------
(* C15 *)

\* child i of the container at path p is stretched across, or keeps the
\* cross-axis size the fit pass gave it
CrossStretched(p, i) ==
    LET c == NodeAt(Grown, p)
        child == c.children[i]
    IN  IF ModeOn(child, CrossOf(c)).kind = "Grow"
        THEN SizeOn(child, CrossOf(c)) = SizeOn(c, CrossOf(c)) - 2 * c.padding
        ELSE SizeOn(child, CrossOf(c)) = SizeOn(NodeAt(Fitted, p).children[i], CrossOf(c))

\* C15 (cross-axis stretch): after the grow pass, in every container, every
\* child whose sizing mode on the container's cross axis is Grow has cross-axis
\* size exactly the container's cross-axis size less 2*padding, whatever its
\* siblings are; every other child keeps its cross-axis size.
C15_CrossAxisStretch ==
    Len(trace) >= 3 =>
        \A p \in Paths(Grown) :
            \A i \in 1..Len(NodeAt(Grown, p).children) : CrossStretched(p, i)

\* a padded container stretched one child across and left its sibling alone
W15_StretchedBesideKept ==
    /\ Len(trace) >= 3
    /\ \E p \in Paths(Grown) :
           LET c == NodeAt(Grown, p)
           IN  /\ c.padding > 0
               /\ \E i, j \in 1..Len(c.children) :
                      /\ ModeOn(c.children[i], CrossOf(c)).kind = "Grow"
                      /\ SizeOn(c.children[i], CrossOf(c)) = SizeOn(c, CrossOf(c)) - 2 * c.padding
                      /\ SizeOn(c.children[i], CrossOf(c)) #
                             SizeOn(NodeAt(Fitted, p).children[i], CrossOf(c))
                      /\ ModeOn(c.children[j], CrossOf(c)).kind # "Grow"
                      /\ SizeOn(c.children[j], CrossOf(c)) > 0

----------------------------------------------------------------------------
(* C16 *)

\* the root's loop is about to run its body
BodyNext == loop.phase = "running" /\ ~panicked /\ grow_continues(loop.st)

\* min_growing_list as the next iteration computes it
TiedNext ==
    min_growing_list_of(loop.st.children, loop.st.grow_list, MainOf(root_item),
        smallest_size_of(loop.st.children, loop.st.grow_list, MainOf(root_item)))

\* C16 (no division by zero): whenever the grow loop runs its body, the tied
\* list (the growable children whose main-axis size is the smallest in the
\* growable list) has at least one member, so remaining / |tied| never divides
\* by zero.
C16_NoDivisionByZero ==
    BodyNext => (Len(TiedNext) >= 1 /\ ~divides_by_zero(Len(TiedNext)))

\* a later iteration is about to divide among tied children that are only a
\* part of the growable list
W16_TiedPartOfGrowable ==
    /\ BodyNext
    /\ loop.iters >= 1
    /\ Len(TiedNext) >= 1
    /\ Len(TiedNext) < Len(loop.st.grow_list)

----------------------------------------------------------------------------
(* C17 *)

\* the root's grow pass started with nothing to distribute and has ended
OverConstrainedEnded ==
    /\ loop.phase = "exited"
    /\ loop.entry.remaining_space <= 0

\* the root's grow pass left the main-axis size of every child and the root's
\* own size as root forcing left them
MainSizesKept ==
    /\ \A i \in 1..Len(root_item.children) :
           SizeOn(root_item.children[i], MainOf(root_item)) =
               SizeOn(Forced.children[i], MainOf(root_item))
    /\ root_item.width = Forced.width
    /\ root_item.height = Forced.height

\* C17 (over-constrained container): when remaining <= 0 at the start of a
\* container's grow distribution, its grow pass completes normally, leaves the
\* main-axis size of every child unchanged and leaves the container's own size
\* unchanged.
C17_OverConstrained ==
    OverConstrainedEnded => (~panicked /\ MainSizesKept)

----------------------------------------------------------------------------
(* C18 *)

Axes == {Horizontal, Vertical}

\* the node at path p has, on every axis where its mode is Fit or Fixed, the
\* size root forcing left
FrameKept(p) ==
    \A axis \in Axes :
        ModeOn(NodeAt(root_item, p), axis).kind \in {"Fit", "Fixed"} =>
            SizeOn(NodeAt(root_item, p), axis) = SizeOn(NodeAt(Forced, p), axis)

\* C18 (grow-pass frame): the grow pass never changes the size, on an axis, of
\* a child whose sizing mode on that axis is Fit or Fixed, and never changes
\* the width or height of the container it was called on; space the Grow
\* children cannot absorb goes neither to Fit/Fixed siblings nor to the parent.
C18_GrowPassFrame ==
    Len(trace) >= 2 =>
        /\ \A p \in Paths(root_item) : p # <<>> => FrameKept(p)
        /\ root_item.width = Forced.width
        /\ root_item.height = Forced.height

\* the grow pass left space over beside a maxed Grow child and a Fixed or Fit
\* sibling
W18_LeftoverDropped ==
    /\ Len(trace) >= 3
    /\ \E p \in Paths(Grown) :
           LET c == NodeAt(Grown, p)
           IN  /\ ChildSum(c, MainOf(c)) < Offered(c)
               /\ \E i, j \in 1..Len(c.children) :
                      /\ IsGrowChild(c, i)
                      /\ AtMax(c.children[i], MainOf(c))
                      /\ ModeOn(c.children[j], MainOf(c)).kind \in {"Fit", "Fixed"}
                      /\ ModeOn(c.children[j], CrossOf(c)).kind \in {"Fit", "Fixed"}

----------------------------------------------------------------------------
(* C19 *)

FitLeaf(n) == n.children = <<>> /\ n.sizing = FIT

\* C19 (leaf sizing): after the fit pass, every childless node whose sizing is
\* Fit on both axes has width equal to its declared min_width and height equal
\* to its declared min_height.
C19_LeafSizing ==
    Len(trace) >= 1 =>
        \A n \in NodesOf(Fitted) :
            FitLeaf(n) => (n.width = n.min_width /\ n.height = n.min_height)

\* C19 as the code has it: after the fit pass, every childless node whose
\* sizing is Fit on both axes has, on each axis, the larger of 2*padding and its
\* declared minimum, lowered to its declared maximum when that is smaller; with
\* padding 0 and no maximum below the minimum that is the declared minimum.
C19_LeafSizingAmended ==
    Len(trace) >= 1 =>
        \A n \in NodesOf(Fitted) :
            FitLeaf(n) =>
                /\ n.width = ClampTo(2 * n.padding, n, Horizontal)
                /\ n.height = ClampTo(2 * n.padding, n, Vertical)
                /\ (n.padding = 0 /\ ~n.max_width.some) => n.width = n.min_width
                /\ (n.padding = 0 /\ ~n.max_height.some) => n.height = n.min_height

\* the fit pass sized a padded Fit leaf by its padding on one axis and a leaf
\* with a maximum below its minimum by that maximum
W19_PaddedLeaf ==
    /\ Len(trace) >= 1
    /\ \E n \in NodesOf(Fitted) :
           /\ FitLeaf(n) /\ n.padding > 0
           /\ n.width = 2 * n.padding /\ n.width > n.min_width
           /\ n.max_height.some /\ n.height = n.max_height.v /\ n.height < n.min_height

----------------------------------------------------------------------------
(* C20 *)

\* how many par_iter calls have returned
FanReturned ==
    CASE fan.stage = "idle" -> 0
      [] fan.stage = "done" -> IF fan.res.remaining_space > 0 /\ fan.res.grow_list # <<>>
                               THEN Len(FanStages) ELSE 2
      [] OTHER -> (CHOOSE n \in 1..Len(FanStages) : FanStages[n] = fan.stage) - 1

\* the children whose lock task k holds
LocksHeld(k) == IF fan.task[k] = "holding" THEN {fan.items[k]} ELSE {}

\* some task can take a step, or all have finished and the call can return
FanCanStep ==
    \/ \A k \in 1..Len(fan.items) : fan.task[k] = "done"
    \/ \E k \in 1..Len(fan.items) : fan.task[k] = "holding"
    \/ \E k \in 1..Len(fan.items) :
           fan.task[k] = "waiting" /\ fan.items[k] \notin fan_locked

\* what the par_iter calls returned is what an evaluation child by child, in
\* the order of the child list, gives
FanAsSequential ==
    LET axis == MainOf(root_item)
        children == root_item.children
        grow_list == grow_filter(children, axis)
        smallest_size == smallest_size_of(children, grow_list, axis)
    IN  /\ FanReturned >= 1 =>
               /\ fan.res.used_space = used_space(children, axis)
               /\ fan.res.remaining_space = remaining_before(root_item, axis)
        /\ FanReturned >= 2 => fan.res.grow_list = grow_list
        /\ FanReturned >= 3 => fan.res.smallest_size = smallest_size
        /\ FanReturned >= 4 =>
               fan.res.min_growing_list =
                   min_growing_list_of(children, grow_list, axis, smallest_size)
        /\ FanReturned >= 5 =>
               fan.res.filter =
                   SelectSeq(grow_list, LAMBDA c : SizeOn(children[c], axis) > smallest_size)

\* C20 (sibling fan-out independence): the parallel tasks of the grow pass over
\* the children only read child state, each holds at most one child lock at a
\* time and no lock is held by two tasks; under every interleaving some task
\* can always step until the call returns, and the used space, the growable
\* list (in child order), the smallest size, the tied list and the larger list
\* are those of a sequential in-order evaluation.
C20_FanOutIndependence ==
    fan.stage # "idle" =>
        /\ root_item = Forced
        /\ FanRunning =>
               /\ \A k \in 1..Len(fan.items) : Cardinality(LocksHeld(k)) <= 1
               /\ \A j, k \in 1..Len(fan.items) :
                      j # k => LocksHeld(j) \cap LocksHeld(k) = {}
               /\ FanCanStep
        /\ FanAsSequential

\* the tasks that filter the tied children have finished last child first, and
\* two or more children are tied
W20_FinishedOutOfOrder ==
    /\ fan.stage = "min_growing_list"
    /\ Len(fan.items) >= 2
    /\ \A k \in 1..Len(fan.items) : fan.task[k] = "done"
    /\ fan.out[1] > fan.out[2]
    /\ fan.val[fan.out[1]] /\ fan.val[fan.out[2]]
    /\ Len(fan.res.grow_list) < Len(root_item.children)

----------------------------------------------------------------------------
(* C21 *)

\* the structure and the sizing policy of a tree: width, height and position
\* of every node as Rectangle::default() has them
RECURSIVE PolicyOf(_)
PolicyOf(n) ==
    [n EXCEPT !.width = 0, !.height = 0, !.position = <<0, 0>>,
              !.children = [i \in 1..Len(n.children) |-> PolicyOf(n.children[i])]]

\* what the four passes make of a policy, a root position and a viewport
LayoutOf(policy, position, viewport) ==
    LET fitted == fit_sizing([policy EXCEPT !.position = position])
        grown == grow_sizing(grow_root(viewport, fitted))
    IN  [tree |-> set_child_positions(grown.node), panic |-> grown.panic]

\* a call of compute_layout has returned
CallReturned == pc = Returned /\ Len(trace) \in {Len(compute_layout), 2 * Len(compute_layout)}

\* C21 (layout is a function of policy and viewport only): whenever
\* compute_layout has returned, the widths, heights and positions of the tree
\* are those the tree structure, the sizing policy, the root's position and the
\* viewport give, whatever width, height and position the nodes held before the
\* call; a second call with the same viewport completes and leaves the state
\* the first call left.
C21_LayoutIsFunction ==
    /\ CallReturned =>
           LET l == LayoutOf(PolicyOf(root_item), root_item.position, size)
           IN  ~l.panic /\ root_item = l.tree
    /\ Len(trace) >= Len(compute_layout) => ~panicked
    /\ Len(trace) = 2 * Len(compute_layout) =>
           root_item = trace[Len(compute_layout)].tree

\* compute_layout has returned twice on a tree of three or more nodes that held
\* stale values before the first call, and the layout grew and placed a child
W21_TwiceFromStale ==
    /\ pc = Returned
    /\ Len(trace) = 2 * Len(compute_layout)
    /\ root_item.position = <<StaleV, StaleV>>
    /\ NodeCount(root_item) >= 3
    /\ trace[7].tree # trace[6].tree
    /\ \E n \in NodesOf(root_item) : n.width # StaleV /\ n.width # 0
    /\ \E p \in Paths(root_item) :
           p # <<>> /\ NodeAt(root_item, p).position # root_item.position

----------------------------------------------------------------------------
(* C22 *)

\* path q is a proper prefix of path p: q's node is an ancestor of p's
IsAncestor(q, p) == Len(q) < Len(p) /\ SubSeq(p, 1, Len(q)) = q

\* q's node lies in the subtree of an earlier sibling of a node on the way to p
InEarlierSubtree(q, p) ==
    \E d \in 1..MinOf(Len(q), Len(p)) :
        /\ SubSeq(q, 1, d - 1) = SubSeq(p, 1, d - 1)
        /\ q[d] < p[d]

\* the nodes whose rectangles were emitted before the k-th
EmittedBefore(k) == { render.out[j].path : j \in 1..(k - 1) }

\* C22 (draw order): Rectangle::draw emits the rectangle of every node of the
\* subtree exactly once, in pre-order: when a node's rectangle is emitted,
\* those emitted before it are exactly its ancestors and the whole subtrees of
\* the earlier siblings of it and of its ancestors; each emitted rectangle has
\* the node's position and size, and drawing changes no size and no position.
C22_DrawOrder ==
    render.phase # "idle" =>
        /\ root_item = trace[Len(compute_layout)].tree
        /\ \A k \in 1..Len(render.out) :
               /\ render.out[k].path \in Paths(root_item)
               /\ render.out[k].mesh = draw_mesh(NodeAt(root_item, render.out[k].path))
               /\ EmittedBefore(k) =
                      { q \in Paths(root_item) :
                            \/ IsAncestor(q, render.out[k].path)
                            \/ InEarlierSubtree(q, render.out[k].path) }
        /\ \A j, k \in 1..Len(render.out) :
               j # k => render.out[j].path # render.out[k].path
        /\ render.phase = "done" =>
               { render.out[k].path : k \in 1..Len(render.out) } = Paths(root_item)

\* draw has returned on a tree where a node with a child of its own has a later
\* sibling
W22_DrawnNested ==
    /\ render.phase = "done"
    /\ Len(render.out) = MaxNodes
    /\ \E j \in 1..Len(render.out) :
           /\ Len(render.out[j].path) = 2
           /\ \E k \in (j + 1)..Len(render.out) : Len(render.out[k].path) = 1
    /\ \E j, k \in 1..Len(render.out) : render.out[j].mesh # render.out[k].mesh

====
